---- MODULE Spec2Model ----
(***************************************************************************)
(* Model of ChannelEnforcementBot (src/main.py): the per-user sliding      *)
(* window spam detector, the warning counters, the join-reminder throttle, *)
(* the resetwarnings command and the daily reset job.                      *)
(*                                                                         *)
(* Scheduling.  The Application is built with its defaults (line 46), so   *)
(* updates are dispatched one at a time: a handler coroutine runs to its   *)
(* end before the next update is dispatched.  The daily job runs as its    *)
(* own task on the same event loop, so it may run whenever the handler is  *)
(* suspended in an await.  Every handler is therefore cut into one action  *)
(* per stretch of code between two awaits; pc names the await the handler  *)
(* is suspended in.                                                        *)
(*                                                                         *)
(* Time is in whole seconds since the process started.                     *)
(***************************************************************************)
EXTENDS Integers, Sequences, FiniteSets

\* ---------------------------------------------------------------- config
SPAM_MAX_MSG == 5
SPAM_WINDOW_SEC == 10
WARNING_AUTO_DELETE_SEC == 60
REMINDER_THROTTLE_SEC == 120
DAY_SEC == 86400

\* ---------------------------------------------------------------- bounds
MaxStored == 7

Users == {1, 2}
BotId == 0
Senders == Users \cup {BotId}
\* the instants the clock is observed at: those at which the comparisons of the
\* code change their answer (window edge, end of the sleep, throttle edge)
Instants == {0, 1, SPAM_WINDOW_SEC + 1, WARNING_AUTO_DELETE_SEC,
             WARNING_AUTO_DELETE_SEC + REMINDER_THROTTLE_SEC,
             WARNING_AUTO_DELETE_SEC + REMINDER_THROTTLE_SEC + 1}
\* the process starts one auto-delete delay before local midnight
FirstMidnights == {WARNING_AUTO_DELETE_SEC}

None == -1

\* outcomes of get_chat_member: a status, or the exception it raised
InChannelStatuses == {"member", "administrator", "creator", "owner"}
AdminStatuses == {"administrator", "creator"}
Statuses == {"member", "administrator", "creator", "restricted", "left", "kicked"}
CaughtErrors == {"BadRequest", "Forbidden"}
LookupErrors == CaughtErrors \cup {"TimedOut"}
LookupOutcomes == Statuses \cup LookupErrors
\* outcomes of send_message / reply_text / delete
TransportOutcomes == {"ok", "fail"}

VARIABLES
    now,            \* datetime.now(tz=TZ)
    next_reset,     \* the next midnight the job queue fires the daily job at
    msg_times,      \* self.msg_times : user -> deque of timestamps
    warnings,       \* self.warnings : user -> int (defaultdict(int))
    last_reminder,  \* self.last_reminder : user -> datetime, None when absent
    pc,             \* the await the running handler is suspended in, or "idle"
    cur,            \* user of the running on_group_message, else None
    first,          \* the running handler's message found the user's window absent
    member,         \* outcome of the running handler's get_chat_member
    count,          \* the count handed to send_spam_warning
    wake,           \* end of the running asyncio.sleep, else None
    result          \* how the last finished handler ended ("none" while one runs)

vars == <<now, next_reset, msg_times, warnings, last_reminder,
          pc, cur, first, member, count, wake, result>>

store == <<msg_times, warnings, last_reminder>>
clock == <<now, next_reset>>
locals == <<cur, first, member, count, wake>>

\* ---------------------------------------------------------------- helpers
\* variant: "if" instead of "while", a single popleft
popleft_once(dq, cutoff) ==
    IF dq # <<>> /\ Head(dq) < cutoff THEN Tail(dq) ELSE dq

\* variant: the trim compares with <= and drops the timestamp at the cutoff
RECURSIVE popleft_old_at_cutoff(_, _)
popleft_old_at_cutoff(dq, cutoff) ==
    IF dq # <<>> /\ Head(dq) <= cutoff
    THEN popleft_old_at_cutoff(Tail(dq), cutoff)
    ELSE dq

\* while dq and dq[0] < cutoff: dq.popleft()
RECURSIVE popleft_old(_, _)
popleft_old(dq, cutoff) ==
    IF dq # <<>> /\ Head(dq) < cutoff
    THEN popleft_old(Tail(dq), cutoff)
    ELSE dq

\* variant: the new timestamp is put at the left end (appendleft)
record_message_appendleft(dq, t) == popleft_old(<<t>> \o dq, t - SPAM_WINDOW_SEC)

\* dq.append(now); trim; the window the classification reads
record_message(dq, t) == popleft_old(Append(dq, t), t - SPAM_WINDOW_SEC)

\* variant: the sender compared with an id that is never the bot's
is_self_never(user) == FALSE

\* if user.id == context.bot.id
is_self(user) == user = BotId

\* variant: the threshold compared with >= instead of >
is_spam_at_threshold(dq) == Len(dq) >= SPAM_MAX_MSG

\* if len(dq) > SPAM_MAX_MSG
is_spam(dq) == Len(dq) > SPAM_MAX_MSG

\* is_user_in_channel: "in", "out", or "raise" when the exception is not caught
is_user_in_channel(outcome) ==
    IF outcome \in CaughtErrors THEN "out"
    ELSE IF outcome \in LookupErrors THEN "raise"
    ELSE IF outcome \in InChannelStatuses THEN "in"
    ELSE "out"

\* variant: the throttle compared with >= instead of >
should_remind_at_edge(last, t) == last = None \/ (t - last) >= REMINDER_THROTTLE_SEC

\* if not last or (datetime.now(tz=TZ) - last) > timedelta(minutes=2)
should_remind(last, t) == last = None \/ (t - last) > REMINDER_THROTTLE_SEC

\* cmd_reset_warnings, lines 185-191: "reject" returns after the rejection
\* reply, "clear" falls through to self.warnings.clear()
admin_gate(outcome) ==
    IF outcome \in LookupErrors THEN "clear"
    ELSE IF outcome \notin AdminStatuses THEN "reject"
    ELSE "clear"

\* number of timestamps held by all the deques together
RECURSIVE SumLen(_, _)
SumLen(m, S) ==
    IF S = {} THEN 0
    ELSE LET u == CHOOSE x \in S : TRUE IN Len(m[u]) + SumLen(m, S \ {u})
Stored(m) == SumLen(m, Senders)

\* dict.clear(): no key is left, whatever the id
cleared_warnings == [u \in Senders |-> 0]
cleared_msg_times == [u \in Senders |-> <<>>]
cleared_last_reminder == [u \in Senders |-> None]

\* the handler returns (or its exception leaves it): locals are dropped
Finish(r) ==
    /\ pc' = "idle"
    /\ cur' = None
    /\ first' = FALSE
    /\ member' = "none"
    /\ count' = 0
    /\ wake' = None
    /\ result' = r

\* ---------------------------------------------------------------- state
Init ==
    /\ now = 0
    /\ next_reset \in FirstMidnights
    /\ msg_times = cleared_msg_times
    /\ warnings = cleared_warnings
    /\ last_reminder = cleared_last_reminder
    /\ pc = "idle"
    /\ cur = None
    /\ first = FALSE
    /\ member = "none"
    /\ count = 0
    /\ wake = None
    /\ result = "none"

\* ---------------------------------------------------------------- clock
\* Time passes.  A due daily job runs before time moves past its midnight.
Tick ==
    \E t \in Instants :
        /\ t > now
        /\ t <= next_reset
        /\ now' = t
        /\ UNCHANGED <<next_reset, store, pc, locals, result>>

\* ---------------------------------------------------------------- on_group_message
\* lines 124-125: an update without a message
on_group_message_no_message ==
    /\ pc = "idle"
    /\ Finish("ignored")
    /\ UNCHANGED <<clock, store>>

\* variant: a message classified as spam is taken out of the window again
on_group_message_forgets_spam(user) ==
    /\ pc = "idle"
    /\ IF is_self(user)
       THEN /\ Finish("self")
            /\ UNCHANGED <<clock, store>>
       ELSE LET dq == record_message(msg_times[user], now)
                kept == IF is_spam(dq) THEN SubSeq(dq, 1, Len(dq) - 1) ELSE dq
            IN
            /\ Stored([msg_times EXCEPT ![user] = dq]) <= MaxStored
            /\ msg_times' = [msg_times EXCEPT ![user] = kept]
            /\ cur' = user
            /\ first' = (msg_times[user] = <<>>)
            /\ pc' = IF is_spam(dq) THEN "spam_delete" ELSE "lookup"
            /\ result' = "none"
            /\ UNCHANGED <<clock, warnings, last_reminder, member, count, wake>>

\* lines 127-147 / 157: ignore the bot itself, record the message, classify it
\* and start the first await of the branch taken
on_group_message(user) ==
    /\ pc = "idle"
    /\ IF is_self(user)
       THEN /\ Finish("self")
            /\ UNCHANGED <<clock, store>>
       ELSE LET dq == record_message(msg_times[user], now) IN
            /\ Stored([msg_times EXCEPT ![user] = dq]) <= MaxStored
            /\ msg_times' = [msg_times EXCEPT ![user] = dq]
            /\ cur' = user
            /\ first' = (msg_times[user] = <<>>)
            /\ pc' = IF is_spam(dq) THEN "spam_delete" ELSE "lookup"
            /\ result' = "none"
            /\ UNCHANGED <<clock, warnings, last_reminder, member, count, wake>>

\* variant: the increment moved inside the try, so a failed delete skips it
on_group_message_spam_deleted_in_try ==
    /\ pc = "spam_delete"
    /\ \E deleted \in TransportOutcomes :
        /\ warnings' = IF deleted = "ok"
                       THEN [warnings EXCEPT ![cur] = @ + 1]
                       ELSE warnings
        /\ count' = warnings'[cur]
        /\ pc' = "spam_send"
        /\ UNCHANGED <<clock, msg_times, last_reminder, cur, first, member, wake, result>>

\* lines 146-153 and 110-113: update.message.delete() returned or raised (both
\* continue); bump the warning count and start sending the warning
on_group_message_spam_deleted ==
    /\ pc = "spam_delete"
    /\ \E deleted \in TransportOutcomes :
        /\ warnings' = [warnings EXCEPT ![cur] = @ + 1]
        /\ count' = warnings[cur] + 1
        /\ pc' = "spam_send"
        /\ UNCHANGED <<clock, msg_times, last_reminder, cur, first, member, wake, result>>

\* lines 113-114 / 119-120 / 154: the warning was sent (sleep) or not (log, return)
send_spam_warning_sent ==
    /\ pc = "spam_send"
    /\ \E sent \in TransportOutcomes :
        IF sent = "ok"
        THEN /\ pc' = "spam_sleep"
             /\ wake' = now + WARNING_AUTO_DELETE_SEC
             /\ UNCHANGED <<clock, store, cur, first, member, count, result>>
        ELSE /\ Finish("spam")
             /\ UNCHANGED <<clock, store>>

\* lines 114-116: the sleep is over, delete the warning
send_spam_warning_woke ==
    /\ pc = "spam_sleep"
    /\ now >= wake
    /\ pc' = "spam_undo"
    /\ wake' = None
    /\ UNCHANGED <<clock, store, cur, first, member, count, result>>

\* variant: no return after the warning, the handler goes on to the lookup
send_spam_warning_deleted_falls_through ==
    /\ pc = "spam_undo"
    /\ \E deleted \in TransportOutcomes :
        /\ pc' = "lookup"
        /\ UNCHANGED <<clock, store, locals, result>>

\* lines 116-118 / 154: warn_msg.delete() returned or raised; the handler returns
send_spam_warning_deleted ==
    /\ pc = "spam_undo"
    /\ \E deleted \in TransportOutcomes :
        /\ Finish("spam")
        /\ UNCHANGED <<clock, store>>

\* lines 157-161 / 173-174 and 70-75: the membership lookup ended
on_group_message_looked_up ==
    /\ pc = "lookup"
    /\ \E outcome \in LookupOutcomes :
        LET in_channel == is_user_in_channel(outcome) IN
        IF in_channel = "raise"
        THEN /\ Finish("raised")
             /\ UNCHANGED <<clock, store>>
        ELSE IF in_channel = "in"
        THEN /\ Finish("allowed")
             /\ UNCHANGED <<clock, store>>
        ELSE /\ pc' = "nm_delete"
             /\ member' = outcome
             /\ UNCHANGED <<clock, store, cur, first, count, wake, result>>

\* lines 160-171 and 83-94: update.message.delete() returned or raised; check
\* the throttle and start sending the reminder, or return
on_group_message_nonmember_deleted ==
    /\ pc = "nm_delete"
    /\ \E deleted \in TransportOutcomes :
        IF should_remind(last_reminder[cur], now)
        THEN /\ pc' = "rem_send"
             /\ member' = "none"
             /\ UNCHANGED <<clock, store, cur, first, count, wake, result>>
        ELSE /\ Finish("silent")
             /\ UNCHANGED <<clock, store>>

\* variant: a failed send is not caught and ends the handler
send_join_reminder_sent_propagates ==
    /\ pc = "rem_send"
    /\ \E sent \in TransportOutcomes :
        IF sent = "ok"
        THEN /\ pc' = "rem_sleep"
             /\ wake' = now + WARNING_AUTO_DELETE_SEC
             /\ UNCHANGED <<clock, store, cur, first, member, count, result>>
        ELSE /\ Finish("raised")
             /\ UNCHANGED <<clock, store>>

\* lines 94-95 / 100-101 / 170-171: the reminder was sent (sleep) or not (log,
\* return to line 170)
send_join_reminder_sent ==
    /\ pc = "rem_send"
    /\ \E sent \in TransportOutcomes :
        IF sent = "ok"
        THEN /\ pc' = "rem_sleep"
             /\ wake' = now + WARNING_AUTO_DELETE_SEC
             /\ UNCHANGED <<clock, store, cur, first, member, count, result>>
        ELSE /\ last_reminder' = [last_reminder EXCEPT ![cur] = now]
             /\ Finish("remind_failed")
             /\ UNCHANGED <<clock, msg_times, warnings>>

\* lines 95-97: the sleep is over, delete the reminder
send_join_reminder_woke ==
    /\ pc = "rem_sleep"
    /\ now >= wake
    /\ pc' = "rem_undo"
    /\ wake' = None
    /\ UNCHANGED <<clock, store, cur, first, member, count, result>>

\* lines 97-99 / 170-171: msg.delete() returned or raised; mark the user reminded
send_join_reminder_deleted ==
    /\ pc = "rem_undo"
    /\ \E deleted \in TransportOutcomes :
        /\ last_reminder' = [last_reminder EXCEPT ![cur] = now]
        /\ Finish("reminded")
        /\ UNCHANGED <<clock, msg_times, warnings>>

\* ---------------------------------------------------------------- cmd_reset_warnings
\* line 186: start the lookup of the caller's status
cmd_reset_warnings ==
    /\ pc = "idle"
    /\ pc' = "cmd_lookup"
    /\ result' = "none"
    /\ UNCHANGED <<clock, store, locals>>

\* variant: the command clears what the daily job clears
cmd_reset_warnings_looked_up_clears_all ==
    /\ pc = "cmd_lookup"
    /\ \E outcome \in LookupOutcomes :
        /\ member' = outcome
        /\ IF admin_gate(outcome) = "reject"
           THEN /\ pc' = "cmd_reject"
                /\ UNCHANGED store
           ELSE /\ pc' = "cmd_confirm"
                /\ warnings' = cleared_warnings
                /\ msg_times' = cleared_msg_times
                /\ last_reminder' = cleared_last_reminder
        /\ UNCHANGED <<clock, cur, first, count, wake, result>>

\* lines 186-194: the lookup ended
cmd_reset_warnings_looked_up ==
    /\ pc = "cmd_lookup"
    /\ \E outcome \in LookupOutcomes :
        /\ member' = outcome
        /\ IF admin_gate(outcome) = "reject"
           THEN /\ pc' = "cmd_reject"
                /\ UNCHANGED warnings
           ELSE /\ pc' = "cmd_confirm"
                /\ warnings' = cleared_warnings
        /\ UNCHANGED <<clock, msg_times, last_reminder, cur, first, count, wake, result>>

\* lines 188-194: the rejection reply returned (return) or raised (except
\* Exception: pass, then line 193)
cmd_reset_warnings_rejected ==
    /\ pc = "cmd_reject"
    /\ \E replied \in TransportOutcomes :
        IF replied = "ok"
        THEN /\ Finish("rejected")
             /\ UNCHANGED <<clock, store>>
        ELSE /\ pc' = "cmd_confirm"
             /\ warnings' = cleared_warnings
             /\ UNCHANGED <<clock, msg_times, last_reminder, locals, result>>

\* line 194: the confirmation reply returned or raised
cmd_reset_warnings_confirmed ==
    /\ pc = "cmd_confirm"
    /\ \E replied \in TransportOutcomes :
        /\ Finish(IF replied = "ok" THEN "confirmed" ELSE "raised")
        /\ UNCHANGED <<clock, store>>

\* ---------------------------------------------------------------- daily job
\* variant: the job without its last line, last_reminder.clear()
reset_warnings_daily_keeps_reminders ==
    /\ now >= next_reset
    /\ warnings' = cleared_warnings
    /\ msg_times' = cleared_msg_times
    /\ next_reset' = next_reset + DAY_SEC
    /\ UNCHANGED <<now, last_reminder, pc, locals, result>>

\* variant: after a run the job is due again only two midnights later
reset_warnings_daily_skips_a_day ==
    /\ now >= next_reset
    /\ warnings' = cleared_warnings
    /\ msg_times' = cleared_msg_times
    /\ last_reminder' = cleared_last_reminder
    /\ next_reset' = next_reset + DAY_SEC + DAY_SEC
    /\ UNCHANGED <<now, pc, locals, result>>

\* lines 197-202, scheduled by run_daily (line 209): no await inside
reset_warnings_daily ==
    /\ now >= next_reset
    /\ warnings' = cleared_warnings
    /\ msg_times' = cleared_msg_times
    /\ last_reminder' = cleared_last_reminder
    /\ next_reset' = next_reset + DAY_SEC
    /\ UNCHANGED <<now, pc, locals, result>>

\* ---------------------------------------------------------------- spec
Receive == \E user \in Senders : on_group_message(user)

Next ==
    \/ Tick
    \/ on_group_message_no_message
    \/ Receive
    \/ on_group_message_spam_deleted
    \/ send_spam_warning_sent
    \/ send_spam_warning_woke
    \/ send_spam_warning_deleted
    \/ on_group_message_looked_up
    \/ on_group_message_nonmember_deleted
    \/ send_join_reminder_sent
    \/ send_join_reminder_woke
    \/ send_join_reminder_deleted
    \/ cmd_reset_warnings
    \/ cmd_reset_warnings_looked_up
    \/ cmd_reset_warnings_rejected
    \/ cmd_reset_warnings_confirmed
    \/ reset_warnings_daily

Spec == Init /\ [][Next]_vars

\* ---------------------------------------------------------------- recurring days
\* The bot runs for days on end (run_polling, line 218).  Times are kept
\* relative to the start of the current day: when the day's last instant is
\* over, the clock moves to the following midnight and every time held
\* anywhere moves one day back.  A time of the day before is further in the
\* past than the spam window, the reminder throttle and any sleep reach, so
\* all of them are kept as the one value LongAgo.
LastInstant == WARNING_AUTO_DELETE_SEC + REMINDER_THROTTLE_SEC + 1
LongAgo == WARNING_AUTO_DELETE_SEC - REMINDER_THROTTLE_SEC - 1
Yesterday(t) == IF t = None THEN None ELSE LongAgo

NextDay ==
    /\ now = LastInstant
    /\ next_reset > now
    /\ now' = next_reset - DAY_SEC
    /\ next_reset' = next_reset - DAY_SEC
    /\ msg_times' = [u \in Senders |-> [i \in 1..Len(msg_times[u]) |-> LongAgo]]
    /\ last_reminder' = [u \in Senders |-> Yesterday(last_reminder[u])]
    /\ wake' = Yesterday(wake)
    /\ UNCHANGED <<warnings, pc, cur, first, member, count, result>>

\* the group of the long run: one user and the bot, a smaller store
LiveSenders == {1, BotId}
LiveMaxStored == 6

LiveReceive ==
    \E user \in LiveSenders :
        /\ on_group_message(user)
        /\ Stored(msg_times') <= LiveMaxStored

LiveNext ==
    \/ Tick
    \/ NextDay
    \/ on_group_message_no_message
    \/ LiveReceive
    \/ on_group_message_spam_deleted
    \/ send_spam_warning_sent
    \/ send_spam_warning_woke
    \/ send_spam_warning_deleted
    \/ on_group_message_looked_up
    \/ on_group_message_nonmember_deleted
    \/ send_join_reminder_sent
    \/ send_join_reminder_woke
    \/ send_join_reminder_deleted
    \/ cmd_reset_warnings
    \/ cmd_reset_warnings_looked_up
    \/ cmd_reset_warnings_rejected
    \/ cmd_reset_warnings_confirmed
    \/ reset_warnings_daily

\* Time passes, and the job queue runs a due job: the handlers only ever
\* suspend in awaits, so the event loop is free to run it.  Nothing is assumed
\* of the handlers, which may stay suspended for ever.
Fairness ==
    /\ WF_vars(Tick)
    /\ WF_vars(NextDay)
    /\ WF_vars(reset_warnings_daily)

LiveSpec == Init /\ [][LiveNext]_vars /\ Fairness

\* ---------------------------------------------------------------- properties
\* kinds of step
ResetStep == next_reset' # next_reset
HandlerStep == pc' # pc
Dispatched(u) == pc = "idle" /\ cur' = u
\* the next update can be dispatched: the running handler has returned
Dispatchable == pc = "idle"
\* the handler is between the throttle check (line 167) and the write (line 170)
InCheckThenSet == pc \in {"rem_send", "rem_sleep", "rem_undo"}
\* the timestamps of dq that lie inside the window ending at t
InWindow(dq, t) == SelectSeq(dq, LAMBDA x : x >= t - SPAM_WINDOW_SEC)
Last(dq) == dq[Len(dq)]
\* the awaits of the spam branch of on_group_message
SpamPcs == {"spam_delete", "spam_send", "spam_sleep", "spam_undo"}
\* the awaits of cmd_reset_warnings
CmdPcs == {"cmd_lookup", "cmd_reject", "cmd_confirm"}

\* C1: a message is classified as spam exactly when the user's timestamps that
\* lie within the trailing SPAM_WINDOW_SEC, this message included, number more
\* than SPAM_MAX_MSG; the window kept is exactly those timestamps.
C1_SpamIffWindowExceeded ==
    [][\A u \in Users :
        Dispatched(u) =>
            LET inside == InWindow(Append(msg_times[u], now), now) IN
            /\ msg_times'[u] = inside
            /\ (pc' = "spam_delete") <=> (Len(inside) > SPAM_MAX_MSG)
            /\ (pc' = "lookup") <=> (Len(inside) <= SPAM_MAX_MSG)]_vars

\* C1 witness: the (SPAM_MAX_MSG+1)-th message of a window whose oldest
\* message lies exactly SPAM_WINDOW_SEC back has just been classified as spam.
C1_Witness ==
    /\ pc = "spam_delete"
    /\ Len(msg_times[cur]) = SPAM_MAX_MSG + 1
    /\ Head(msg_times[cur]) = now - SPAM_WINDOW_SEC
    /\ Last(msg_times[cur]) = now

\* C2: warnings[u] goes up by exactly 1 when the handler of a message of u
\* classified as spam resumes, goes up on no other step, and goes down only to
\* zero, by the daily reset or by resetwarnings.
C2_WarningsStepByOne ==
    [][\A u \in Users :
        /\ (pc = "spam_delete" /\ cur = u /\ HandlerStep)
               => warnings'[u] = warnings[u] + 1
        /\ warnings'[u] > warnings[u]
               => (warnings'[u] = warnings[u] + 1 /\ pc = "spam_delete" /\ cur = u)
        /\ warnings'[u] < warnings[u]
               => (warnings'[u] = 0 /\ (ResetStep \/ pc \in {"cmd_lookup", "cmd_reject"}))]_vars

\* C2 witness: a user's second spam message has raised the count to 2 although
\* deleting the message is what the handler was suspended in.
C2_Witness ==
    /\ pc = "spam_send"
    /\ count = 2
    /\ warnings[cur] = 2

\* C3: when the delete of a non-member's message has ended, a reminder is sent
\* exactly if last_reminder[user] is absent or more than REMINDER_THROTTLE_SEC
\* before now; otherwise the handler ends silently and writes nothing. Neither
\* happens before the delete of the message was requested.
C3_ReminderIffThrottleOpen ==
    [][/\ (pc = "nm_delete" /\ HandlerStep) =>
              IF last_reminder[cur] = None
                 \/ now - last_reminder[cur] > REMINDER_THROTTLE_SEC
              THEN pc' = "rem_send"
              ELSE pc' = "idle" /\ result' = "silent" /\ last_reminder' = last_reminder
       /\ (pc' = "rem_send" /\ HandlerStep) => pc = "nm_delete"
       /\ (result' = "silent" /\ HandlerStep) => pc = "nm_delete"
       /\ (pc = "lookup" /\ HandlerStep) => pc' \in {"idle", "nm_delete"}]_vars

\* C3 witness: the only sender since the reset is a non-member whose message,
\* handled 1 second after the user was marked reminded, was deleted silently.
C3_Witness ==
    \E u \in Users :
        /\ pc = "idle"
        /\ result = "silent"
        /\ last_reminder[u] = now - 1
        /\ msg_times[u] # <<>>
        /\ Last(msg_times[u]) = now
        /\ \A v \in Users \ {u} : msg_times[v] = <<>>

\* C4 (as claimed): between the throttle check and the write that marks the
\* user reminded nothing else runs, in particular not the daily reset.
C4_CheckThenSetAtomic ==
    [][InCheckThenSet => ~ResetStep]_vars

\* C5 (as claimed): while a sent notice waits for its deletion, the handler
\* that sent it has returned and the next update can be dispatched.
C5_NoticeDeletionDoesNotBlock ==
    wake # None => Dispatchable

\* C6: the daily reset empties msg_times, warnings and last_reminder in a
\* single step, in which no handler moves; a handler suspended across it
\* resumes with all three maps empty.
C6_ResetClearsAllAtOnce ==
    [][ResetStep =>
          /\ msg_times' = cleared_msg_times
          /\ warnings' = cleared_warnings
          /\ last_reminder' = cleared_last_reminder
          /\ UNCHANGED <<pc, locals, result>>]_vars

\* C6 witness: the reset ran while a handler was sleeping after the spam
\* warning it sent (so a window and a warning count existed before): the
\* three maps are empty and the handler is where it was.
C6_Witness ==
    /\ next_reset > DAY_SEC
    /\ pc = "spam_sleep"
    /\ count >= 1
    /\ msg_times = cleared_msg_times
    /\ warnings = cleared_warnings
    /\ last_reminder = cleared_last_reminder

\* C7 (as claimed): a message that finds its user's window absent (the first
\* since the reset) is alone in the window, is not spam, and if its sender is
\* a non-member a join reminder is sent for it.
C7_FirstAfterResetIsFresh ==
    [][/\ (pc = "idle" /\ HandlerStep /\ first')
              => (msg_times'[cur'] = <<now>> /\ pc' = "lookup")
       /\ (pc = "nm_delete" /\ first /\ HandlerStep) => pc' = "rem_send"]_vars

\* C8 (as claimed): once the lookup has returned a status other than
\* administrator and creator, the command leaves warnings as they are; when it
\* returned administrator or creator, the warnings are cleared.
C8_NonAdminLeavesWarnings ==
    [][/\ (pc = "cmd_reject" /\ HandlerStep) => warnings' = warnings
       /\ (pc = "cmd_lookup" /\ HandlerStep /\ member' \in AdminStatuses)
              => (warnings' = cleared_warnings /\ pc' = "cmd_confirm")
       /\ (pc = "cmd_lookup" /\ HandlerStep /\ member' \in Statuses \ AdminStatuses)
              => (warnings' = warnings /\ pc' = "cmd_reject")]_vars

\* C9 (as claimed): a step of the command changes warnings only if the lookup
\* returned administrator or creator; with any other outcome of the lookup,
\* an error included, the lookup step leaves them as they are.
C9_ClearsOnlyForAdmin ==
    [][(pc = "cmd_lookup" /\ HandlerStep /\ member' \notin AdminStatuses)
          => warnings' = warnings]_vars

\* C10 (as claimed): whatever error the membership lookup ends with, the
\* handler goes on to delete the message; it never ends with the error raised.
C10_LookupFailureIsNonMember ==
    [][(pc = "lookup" /\ HandlerStep) =>
          /\ result' # "raised"
          /\ member' \in LookupErrors => pc' = "nm_delete"]_vars

\* C11: a message sent by the bot itself ends the handler at once: no await is
\* started (no delete, no notice, no lookup), msg_times, warnings and
\* last_reminder stay as they are for every user, and no entry is ever made
\* under the bot's own id.
C11_SelfMessageIgnored ==
    [][/\ cur' # BotId
       /\ msg_times'[BotId] = <<>>
       /\ warnings'[BotId] = 0
       /\ last_reminder'[BotId] = None
       /\ (result' = "self" /\ result # "self")
              => (pc = "idle" /\ pc' = "idle" /\ UNCHANGED store)]_vars

\* C11 witness: the bot's own message has just been ignored while users hold
\* a window, a warning count and a reminder mark.
C11_Witness ==
    /\ pc = "idle"
    /\ result = "self"
    /\ \E u \in Users : warnings[u] >= 1 /\ msg_times[u] # <<>>
    /\ \E v \in Users : last_reminder[v] # None

\* C12 (as claimed): once more than SPAM_WINDOW_SEC have passed since a
\* user's last message, that user's stored window is empty.
C12_WindowEmptyAfterSilence ==
    \A u \in Users :
        msg_times[u] # <<>> => now - Last(msg_times[u]) <= SPAM_WINDOW_SEC

\* C12 (amended): the purge is lazy. The passing of time alone removes
\* nothing; when the user's next message is handled more than SPAM_WINDOW_SEC
\* after the last one, all old timestamps are removed and the window holds
\* that message alone, which is not spam.
C12_StaleWindowDroppedOnNextMessage ==
    [][/\ now' # now => msg_times' = msg_times
       /\ \A u \in Users :
              (/\ Dispatched(u)
               /\ msg_times[u] # <<>>
               /\ now - Last(msg_times[u]) > SPAM_WINDOW_SEC)
              => (msg_times'[u] = <<now>> /\ pc' = "lookup")]_vars

\* C12 witness: a message has just been recorded for a user whose window was
\* not empty before; every older timestamp is gone.
C12_Witness ==
    /\ pc = "lookup"
    /\ cur \in Users
    /\ ~first
    /\ msg_times[cur] = <<now>>

\* C13: no step of the resetwarnings command, accepted or rejected, changes
\* msg_times or last_reminder of any user.
C13_ResetCommandKeepsWindowsAndReminders ==
    [][((pc \in CmdPcs \/ pc' \in CmdPcs) /\ HandlerStep)
          => UNCHANGED <<msg_times, last_reminder>>]_vars

\* C13 witness: the command was accepted and has cleared the warnings of a
\* user whose window still holds a spam burst, and a reminder mark is kept.
C13_Witness ==
    /\ pc = "idle"
    /\ result = "confirmed"
    /\ warnings = cleared_warnings
    /\ \E u \in Users : Len(msg_times[u]) > SPAM_MAX_MSG
    /\ \E v \in Users : last_reminder[v] # None

\* C14: the checks run in the order self, rate limit, membership.  Every
\* message of a user is recorded at its handling time before anything else;
\* the spam branch is taken exactly when the recorded window is over the
\* limit, and from it the handler only proceeds within the spam branch or
\* returns, never reaching the lookup or the reminder and never changing
\* last_reminder; the lookup is started only straight from the rate limiter.
C14_SelfThenRateLimitThenMembership ==
    [][/\ \A u \in Users :
             Dispatched(u)
             => /\ Last(msg_times'[u]) = now
                /\ pc' = IF is_spam(msg_times'[u]) THEN "spam_delete" ELSE "lookup"
       /\ (pc \in SpamPcs /\ HandlerStep)
             => (pc' \in SpamPcs \cup {"idle"} /\ last_reminder' = last_reminder)
       /\ (pc' = "lookup" /\ pc # "lookup") => pc = "idle"]_vars

\* C14 witness: a spam message of a user whose throttle is open (a reminder
\* would be due) is in the spam branch, the warning being sent.
C14_Witness ==
    /\ pc = "spam_send"
    /\ last_reminder[cur] # None
    /\ now - last_reminder[cur] > REMINDER_THROTTLE_SEC

\* C15: right after the rate limiter has recorded a message of u at time now,
\* every timestamp of msg_times[u] is at least now - SPAM_WINDOW_SEC; each
\* earlier timestamp at or after that cutoff (the one exactly at the cutoff
\* too) is still there, and each earlier one before the cutoff is gone.
C15_WindowHoldsOnlyRecentAfterTrim ==
    [][\A u \in Users :
          Dispatched(u)
          => LET old == msg_times[u]
                 new == msg_times'[u]
                 cutoff == now - SPAM_WINDOW_SEC
             IN /\ \A j \in 1..Len(new) : new[j] >= cutoff
                /\ \A i \in 1..Len(old) :
                      IF old[i] >= cutoff
                      THEN \E j \in 1..Len(new) : new[j] = old[i]
                      ELSE \A j \in 1..Len(new) : new[j] # old[i]]_vars

\* C15 witness: a message was just recorded and the window still starts with
\* an earlier timestamp lying exactly at the cutoff.
C15_Witness ==
    /\ pc = "lookup"
    /\ cur \in Users
    /\ ~first
    /\ Len(msg_times[cur]) >= 2
    /\ Head(msg_times[cur]) = now - SPAM_WINDOW_SEC

\* C16: in every reachable state, whatever handlers and resets have run, the
\* timestamps of each window are in non-decreasing order.
C16_WindowsNonDecreasing ==
    \A u \in Senders :
        \A i \in 1..(Len(msg_times[u]) - 1) : msg_times[u][i] <= msg_times[u][i + 1]

\* C16 witness: after a daily reset has run, a window holds timestamps of two
\* different instants.
C16_Witness ==
    /\ next_reset > DAY_SEC
    /\ \E u \in Users :
          /\ Len(msg_times[u]) >= 2
          /\ Head(msg_times[u]) < Last(msg_times[u])

\* C17 (as claimed): last_reminder[u] gets a new value only in the step in
\* which a reminder to u is actually sent, the value being the time of that
\* step, and it becomes absent only in a daily reset.
C17_ReminderMarkIsTimeOfSentReminder ==
    [][\A u \in Users :
          /\ (last_reminder'[u] # last_reminder[u] /\ last_reminder'[u] # None)
                => /\ pc = "rem_send"
                   /\ pc' = "rem_sleep"
                   /\ cur = u
                   /\ last_reminder'[u] = now
          /\ (last_reminder[u] # None /\ last_reminder'[u] = None) => ResetStep]_vars

\* C18: whether a send or a delete succeeds or fails, the handler goes on:
\* after the delete of a spam message the warning count is raised by one and
\* the warning is sent; after the delete of a non-member's message the
\* throttle decides between reminder and return; after the send or the
\* deletion of a notice the handler moves forward or returns normally, never
\* with a propagated error and never back to a send.
C18_TransportFailuresSwallowed ==
    [][/\ (pc = "spam_delete" /\ HandlerStep)
             => (warnings'[cur] = warnings[cur] + 1 /\ pc' = "spam_send")
       /\ (pc = "nm_delete" /\ HandlerStep)
             => pc' = IF should_remind(last_reminder[cur], now) THEN "rem_send" ELSE "idle"
       /\ (pc = "spam_send" /\ HandlerStep) => pc' \in {"spam_sleep", "idle"}
       /\ (pc = "rem_send" /\ HandlerStep) => pc' \in {"rem_sleep", "idle"}
       /\ (pc \in {"spam_undo", "rem_undo"} /\ HandlerStep) => pc' = "idle"
       /\ (pc \in {"spam_delete", "spam_send", "spam_undo",
                    "nm_delete", "rem_send", "rem_undo"} /\ HandlerStep)
             => result' # "raised"]_vars

\* C18 witness: the send of a reminder failed and the handler has returned
\* normally, the next update being dispatchable.
C18_Witness ==
    /\ pc = "idle"
    /\ result = "remind_failed"
    /\ \E u \in Users : last_reminder[u] = now

\* C20: a message of u handled while at least SPAM_MAX_MSG earlier recorded
\* messages of u (spam ones included) lie in the trailing window is spam, is
\* itself added to the window, and raises warnings[u] when its handler
\* resumes; with fewer such messages it goes to the membership check; the
\* spam branch takes nothing out of any window.  Only the passing of time or
\* a daily reset ends the run of spam classifications.
C20_SpamStaysRecorded ==
    [][/\ \A u \in Users :
             Dispatched(u)
             => LET earlier == Len(InWindow(msg_times[u], now)) IN
                /\ Len(msg_times'[u]) = earlier + 1
                /\ pc' = IF earlier >= SPAM_MAX_MSG THEN "spam_delete" ELSE "lookup"
       /\ (pc \in SpamPcs /\ HandlerStep) => msg_times' = msg_times
       /\ (pc = "spam_delete" /\ HandlerStep) => warnings'[cur] > warnings[cur]]_vars

\* C20 witness: the message after a spam message of the same user is spam
\* too: the window holds both and the first one has been counted.
C20_Witness ==
    /\ pc = "spam_delete"
    /\ Len(msg_times[cur]) = SPAM_MAX_MSG + 2
    /\ warnings[cur] = 1

\* C19: the daily job recurs.  Every new day begins at a midnight for which
\* the job is scheduled, a due job always gets run, and so the reset runs
\* again and again for ever, whatever state the handlers are in.
C19_ResetFiresAtEveryMidnight ==
    /\ [][now' < now => now' = next_reset']_vars
    /\ [](now >= next_reset => <>(next_reset > now))
    /\ []<><<reset_warnings_daily>>_vars

\* C19 witness: a handler went to sleep on one day, is still suspended on the
\* next, and that day's reset has run.
C19_Witness ==
    /\ pc \in {"spam_sleep", "rem_sleep"}
    /\ wake = LongAgo
    /\ next_reset > DAY_SEC

TypeOK ==
    /\ now \in Instants
    /\ Stored(msg_times) <= MaxStored
    /\ pc \in {"idle", "spam_delete", "spam_send", "spam_sleep", "spam_undo",
               "lookup", "nm_delete", "rem_send", "rem_sleep", "rem_undo",
               "cmd_lookup", "cmd_reject", "cmd_confirm"}
====
